---- MODULE Spec2Model ----
(***************************************************************************)
(* Model of the Hello World instruction handler                            *)
(* examples/helloworld/program/src/lib.rs (process_instruction).           *)
(*                                                                         *)
(* Bytes are integers 0..255.  A transaction input or output is one opaque *)
(* token (its fixed-layout wire bytes are not interpreted by the handler). *)
(* Host calls (realloc, add_state_transition, set_transaction_to_sign, ...)*)
(* are recorded in `calls` in the order the handler makes them; their      *)
(* results are chosen by the host.                                         *)
(***************************************************************************)
EXTENDS Integers, Sequences, FiniteSets, TLC

\* ------------------------------------------------------------------ bounds
MaxBufLen == 11        \* longest account buffer at first entry
MaxFeeInputs == 2      \* most inputs of a fee transaction
MaxAnchorInputs == 2   \* most inputs the anchoring helper appends
MaxInvocations == 2    \* invocations in one behaviour

\* ------------------------------------------------------- program constants
VersionTWO == 2
LockTimeZERO == 0
InputToSignIndex == 0

\* --------------------------------------------------------------- byte data
Hello == <<72, 101, 108, 108, 111, 32>>      \* "Hello "
Bob == <<66, 111, 98>>                       \* "Bob"
Alice == <<65, 108, 105, 99, 101>>           \* "Alice"
HelloBob == <<72, 101, 108, 108, 111, 32, 66, 111, 98>>
HelloAlice == <<72, 101, 108, 108, 111, 32, 65, 108, 105, 99, 101>>

Keys == {"k1", "k2"}
AccountLists == {<<>>, <<"k1">>, <<"k2">>, <<"k1", "k2">>}
Heights == {100, 101}
Names == {<<>>, Bob, Alice}

Stale(n) == [i \in 1..n |-> 120]
Zeros(n) == [i \in 1..n |-> 0]
InitBuffers == {Stale(0), Stale(5), Stale(9), Stale(MaxBufLen)}

RECURSIVE SeqsUpTo(_, _)
SeqsUpTo(S, n) ==
    IF n = 0 THEN {<<>>}
    ELSE LET shorter == SeqsUpTo(S, n - 1)
         IN  shorter \cup {Append(s, x) : s \in shorter, x \in S}

\* ----------------------------------------------------- little-endian u32
LE32(n) == <<n % 256, (n \div 256) % 256, (n \div 65536) % 256, (n \div 16777216) % 256>>
U32At(b, i) == b[i] + 256 * b[i + 1] + 65536 * b[i + 2] + 16777216 * b[i + 3]

\* ------------------------------------------- bitcoin consensus encoding
\* Transaction { version, lock_time, input, output }.  A transaction with
\* no inputs is written in the BIP-141 form (marker 0, flag 1).
NewTx == [version |-> VersionTWO, lock_time |-> LockTimeZERO, input |-> <<>>, output |-> <<>>]

serialize(t) ==
    LE32(t.version)
      \o (IF t.input = <<>> THEN <<0, 1>> ELSE <<>>)
      \o <<Len(t.input)>> \o t.input
      \o <<Len(t.output)>> \o t.output
      \o LE32(t.lock_time)

NoTx == [ok |-> FALSE, tx |-> NewTx]

\* body of a transaction starting at the input count at position p
DecodeBody(b, version, p, segwit) ==
    IF Len(b) < p THEN NoTx
    ELSE LET n == b[p] IN
      IF Len(b) < p + n + 1 THEN NoTx
      ELSE LET m == b[p + n + 1]
               q == p + n + 2 + m      \* position of lock_time
           IN IF Len(b) # q + 3 THEN NoTx                 \* truncated or trailing bytes
              ELSE IF segwit /\ n > 0 THEN NoTx           \* witness flag set, no witnesses
              ELSE [ok |-> TRUE,
                    tx |-> [version |-> version,
                            lock_time |-> U32At(b, q),
                            input |-> SubSeq(b, p + 1, p + n),
                            output |-> SubSeq(b, p + n + 2, p + n + 1 + m)]]

deserialize(b) ==
    IF Len(b) < 5 THEN NoTx
    ELSE LET version == U32At(b, 1) IN
      IF b[5] # 0 THEN DecodeBody(b, version, 5, FALSE)
      ELSE IF Len(b) < 6 \/ b[6] # 1 THEN NoTx            \* unsupported segwit flag
      ELSE DecodeBody(b, version, 7, TRUE)

\* ------------------------------------------------------- borsh encoding
\* HelloWorldParams { name: String, tx_hex: Vec<u8> }
DefaultParams == [name |-> <<>>, tx_hex |-> <<>>]
NoParams == [ok |-> FALSE, params |-> DefaultParams]

borsh_to_vec(p) == LE32(Len(p.name)) \o p.name \o LE32(Len(p.tx_hex)) \o p.tx_hex

IsUtf8(s) == \A i \in 1..Len(s) : s[i] < 128

\* a decoder that does not require the whole slice to be consumed
borsh_from_slice_lenient(b) ==
    IF Len(b) < 4 THEN NoParams
    ELSE LET n == U32At(b, 1) IN
      IF Len(b) < 4 + n + 4 THEN NoParams
      ELSE LET name == SubSeq(b, 5, 4 + n)
               m == U32At(b, 5 + n)
           IN IF ~IsUtf8(name) THEN NoParams
              ELSE IF Len(b) < 8 + n + m THEN NoParams
              ELSE [ok |-> TRUE,
                    params |-> [name |-> name, tx_hex |-> SubSeq(b, 9 + n, 8 + n + m)]]

borsh_from_slice(b) ==
    IF Len(b) < 4 THEN NoParams
    ELSE LET n == U32At(b, 1) IN
      IF Len(b) < 4 + n + 4 THEN NoParams
      ELSE LET name == SubSeq(b, 5, 4 + n)
               m == U32At(b, 5 + n)
           IN IF ~IsUtf8(name) THEN NoParams
              ELSE IF Len(b) # 8 + n + m THEN NoParams    \* truncated or not all bytes read
              ELSE [ok |-> TRUE,
                    params |-> [name |-> name, tx_hex |-> SubSeq(b, 9 + n, 8 + n + m)]]

\* ------------------------------------------------------------ input sets
FeeInputTokens == {7, 8}
FeeTxs ==
    {[version |-> 1, lock_time |-> 5, input |-> i, output |-> o] :
        i \in SeqsUpTo(FeeInputTokens, MaxFeeInputs), o \in {<<>>, <<9>>}}

Truncate(b) == SubSeq(b, 1, Len(b) - 1)

FeeTxBytes ==
    {serialize(t) : t \in FeeTxs}
      \cup {<<>>, Truncate(serialize([version |-> 1, lock_time |-> 5, input |-> <<7>>, output |-> <<9>>]))}

WellFormedPayloads == {borsh_to_vec([name |-> n, tx_hex |-> t]) : n \in Names, t \in FeeTxBytes}

GoodFee == serialize([version |-> 1, lock_time |-> 5, input |-> <<7>>, output |-> <<9>>])
MalformedPayloads ==
    {<<>>, <<3, 0>>,
     Truncate(borsh_to_vec([name |-> Bob, tx_hex |-> GoodFee])),
     Append(borsh_to_vec([name |-> Bob, tx_hex |-> GoodFee]), 0),
     borsh_to_vec([name |-> <<255>>, tx_hex |-> GoodFee]),
     LE32(3) \o Bob}

Payloads == WellFormedPayloads \cup MalformedPayloads

\* ------------------------------------------------------- pure helpers
\* variant: only an empty account list is rejected
ArityOk_atleast(accs) == Len(accs) >= 1

\* accounts.len() != 1 is rejected
ArityOk(accs) == Len(accs) = 1

\* variant: the separating space is missing
Greeting_nospace(name) == SubSeq(Hello, 1, 5) \o name

\* format!("Hello {}", params.name)
Greeting(name) == Hello \o name

\* variant: resize on every invocation
NeedsRealloc_always(new_len, data_len) == TRUE

\* variant: resize whenever the lengths differ
NeedsRealloc_differs(new_len, data_len) == new_len # data_len

\* new_data.as_bytes().len() > data_len
NeedsRealloc(new_len, data_len) == new_len > data_len

\* variant: room for a terminator
ReallocLen_plus1(nd) == Len(nd) + 1

\* length passed to account.realloc
ReallocLen(nd) == Len(nd)

\* account.realloc(new_len, true) when the host grants it
ReallocOk(buf, new_len) ==
    IF new_len >= Len(buf) THEN buf \o Zeros(new_len - Len(buf))
    ELSE SubSeq(buf, 1, new_len)

\* variant: the copy is skipped
copy_from_slice_noop(dst, src) == [ok |-> TRUE, data |-> dst]

\* variant: the destination is replaced by the source whatever its length
copy_from_slice_replace(dst, src) == [ok |-> TRUE, data |-> src]

\* variant: a prefix copy into a longer destination
copy_from_slice_prefix(dst, src) ==
    [ok |-> Len(dst) >= Len(src),
     data |-> IF Len(dst) >= Len(src)
              THEN src \o SubSeq(dst, Len(src) + 1, Len(dst))
              ELSE dst]

\* <[u8]>::copy_from_slice: panics unless both slices have the same length
copy_from_slice(dst, src) ==
    [ok |-> Len(dst) = Len(src), data |-> IF Len(dst) = Len(src) THEN src ELSE dst]

\* helper::add_state_transition: the host's anchoring of the account, n inputs
\* and n outputs
AnchorInputs(n) == [i \in 1..n |-> 20 + i]
AnchorOutputs(n) == [i \in 1..n |-> 30 + i]
add_state_transition(t, n) ==
    [t EXCEPT !.input = @ \o AnchorInputs(n), !.output = @ \o AnchorOutputs(n)]

\* variant: the last fee input instead of the first
PushFeeInput_last(t, fee) == [t EXCEPT !.input = Append(@, fee.input[Len(fee.input)])]

\* tx.input.push(fees_tx.input[0].clone())
PushFeeInput(t, fee) == [t EXCEPT !.input = Append(@, fee.input[1])]

\* variant: the appended fee input is the one to sign
TransactionToSign_feeinput(t, key) ==
    [tx_bytes |-> serialize(t),
     inputs_to_sign |-> <<[index |-> Len(t.input) - 1, signer |-> key]>>]

\* TransactionToSign { tx_bytes, inputs_to_sign: [InputToSign { index: 0, signer }] }
TransactionToSign(t, key) ==
    [tx_bytes |-> serialize(t),
     inputs_to_sign |-> <<[index |-> InputToSignIndex, signer |-> key]>>]

\* results of process_instruction
NoResult == [kind |-> "none", val |-> ""]
Ok == [kind |-> "Ok", val |-> ""]
Err(e) == [kind |-> "Err", val |-> e]
Panic(line) == [kind |-> "Panic", val |-> line]
Custom501 == "Custom(501)"
ReallocErrors == {"InvalidRealloc"}
SubmitErrors == {"Custom(1)"}

\* variant: the error of a fallible call is dropped
Try_ignore(r, next) == [pc |-> next, result |-> NoResult]

\* the `?` operator: an Err is returned to the caller at once
Try(r, next) ==
    IF r.kind = "Ok" THEN [pc |-> next, result |-> NoResult]
    ELSE [pc |-> "done", result |-> r]

\* AccountInfo::realloc as the host answers it: r is Ok or an error, and an
\* error leaves the buffer as it was
realloc(buf, new_len, r) == IF r.kind = "Ok" THEN ReallocOk(buf, new_len) ELSE buf

\* ------------------------------------------------------------------- state
VARIABLES
    data,                  \* account.data of every account the host holds
    accounts,              \* the accounts slice of the running invocation
    instruction_data,      \* the instruction_data slice
    pc,                    \* position in process_instruction
    bitcoin_block_height,  \* value returned by get_bitcoin_block_height
    params,                \* decoded HelloWorldParams
    fees_tx,               \* decoded fee transaction
    new_data,              \* the greeting
    tx,                    \* the transaction under construction
    calls,                 \* host calls made by the running invocation
    result,                \* what process_instruction returned
    entry_data,            \* data as it was when the invocation started
    invocations,           \* invocations started so far
    written                \* per account, the lengths of the greetings written to it, in order

vars == <<data, accounts, instruction_data, pc, bitcoin_block_height, params,
          fees_tx, new_data, tx, calls, result, entry_data, invocations, written>>

locals == <<bitcoin_block_height, params, fees_tx, new_data, tx>>
invocation == <<accounts, instruction_data, entry_data, invocations>>
inputs == <<accounts, instruction_data, entry_data, invocations, written>>

\* one library or host call: its name, the account it is about, its
\* argument and what it returned
Call(op, key, arg, ret) == [op |-> op, key |-> key, arg |-> arg, ret |-> ret]
account == accounts[1]

Init ==
    /\ data \in [Keys -> InitBuffers]
    /\ accounts = <<>>
    /\ instruction_data = <<>>
    /\ pc = "idle"
    /\ bitcoin_block_height = 0
    /\ params = DefaultParams
    /\ fees_tx = NewTx
    /\ new_data = <<>>
    /\ tx = NewTx
    /\ calls = <<>>
    /\ result = NoResult
    /\ entry_data = data
    /\ invocations = 0
    /\ written = [k \in Keys |-> <<>>]

\* the host invokes the entrypoint
Entry ==
    /\ pc \in {"idle", "done"}
    /\ invocations < MaxInvocations
    /\ invocations' = invocations + 1
    /\ accounts' \in AccountLists
    /\ instruction_data' \in Payloads
    /\ entry_data' = data
    /\ bitcoin_block_height' = 0
    /\ params' = DefaultParams
    /\ fees_tx' = NewTx
    /\ new_data' = <<>>
    /\ tx' = NewTx
    /\ calls' = <<>>
    /\ result' = NoResult
    /\ pc' = "arity"
    /\ UNCHANGED <<data, written>>

\* lines 34-36
CheckArity ==
    /\ pc = "arity"
    /\ IF ArityOk(accounts)
       THEN pc' = "height" /\ UNCHANGED result
       ELSE pc' = "done" /\ result' = Err(Custom501)
    /\ UNCHANGED <<data, calls, locals, inputs>>

\* variant: the handler refuses to run at an odd chain height
GetHeight_gate ==
    /\ pc = "height"
    /\ \E h \in Heights :
         /\ bitcoin_block_height' = h
         /\ calls' = Append(calls, Call("get_bitcoin_block_height", "", "", h))
         /\ IF h % 2 = 1
            THEN pc' = "done" /\ result' = Err("Custom(502)")
            ELSE pc' = "decode_params" /\ UNCHANGED result
    /\ UNCHANGED <<data, params, fees_tx, new_data, tx, inputs>>

\* lines 39-46
GetHeight ==
    /\ pc = "height"
    /\ \E h \in Heights :
         /\ bitcoin_block_height' = h
         /\ calls' = Append(calls, Call("get_bitcoin_block_height", "", "", h))
    /\ pc' = "decode_params"
    /\ UNCHANGED <<data, params, fees_tx, new_data, tx, result, inputs>>

\* line 49
DecodeParams ==
    /\ pc = "decode_params"
    /\ LET r == borsh_from_slice(instruction_data) IN
         IF r.ok
         THEN params' = r.params /\ pc' = "decode_fee" /\ UNCHANGED result
         ELSE pc' = "done" /\ result' = Panic("lib.rs:49") /\ UNCHANGED params
    /\ UNCHANGED <<data, bitcoin_block_height, fees_tx, new_data, tx, calls, inputs>>

\* line 52
DecodeFee ==
    /\ pc = "decode_fee"
    /\ LET r == deserialize(params.tx_hex) IN
         IF r.ok
         THEN fees_tx' = r.tx /\ pc' = "realloc" /\ UNCHANGED result
         ELSE pc' = "done" /\ result' = Panic("lib.rs:52") /\ UNCHANGED fees_tx
    /\ UNCHANGED <<data, bitcoin_block_height, params, new_data, tx, calls, inputs>>

\* lines 55-61
Realloc ==
    /\ pc = "realloc"
    /\ new_data' = Greeting(params.name)
    /\ IF NeedsRealloc(Len(new_data'), Len(data[account]))
       THEN \E r \in {Ok} \cup {Err(e) : e \in ReallocErrors} :
              LET arg == [new_len |-> ReallocLen(new_data'), zero_init |-> TRUE]
                  t == Try(r, "script_pubkey")
              IN /\ calls' = Append(calls, Call("realloc", account, arg, r))
                 /\ data' = [data EXCEPT ![account] = realloc(@, arg.new_len, r)]
                 /\ pc' = t.pc
                 /\ result' = t.result
       ELSE /\ pc' = "script_pubkey"
            /\ UNCHANGED <<data, calls, result>>
    /\ UNCHANGED <<bitcoin_block_height, params, fees_tx, tx, inputs>>

\* lines 64-65
ScriptPubkey ==
    /\ pc = "script_pubkey"
    /\ calls' = Append(calls, Call("get_account_script_pubkey", account, "", ""))
    /\ pc' = "write"
    /\ UNCHANGED <<data, locals, result, inputs>>

\* lines 68-72
Write ==
    /\ pc = "write"
    /\ LET r == copy_from_slice(data[account], new_data) IN
         /\ calls' = Append(calls, Call("copy_from_slice", account, new_data, r.ok))
         /\ IF r.ok
            THEN /\ data' = [data EXCEPT ![account] = r.data]
                 /\ written' = [written EXCEPT ![account] = Append(@, Len(new_data))]
                 /\ pc' = "assemble"
                 /\ UNCHANGED result
            ELSE /\ pc' = "done"
                 /\ result' = Panic("lib.rs:72")
                 /\ UNCHANGED <<data, written>>
    /\ UNCHANGED <<locals, invocation>>

\* lines 75-84
Assemble ==
    /\ pc = "assemble"
    /\ \E n \in 1..MaxAnchorInputs :
         LET anchored == add_state_transition(NewTx, n) IN
         /\ calls' = Append(calls, Call("add_state_transition", account, n, anchored))
         /\ IF fees_tx.input = <<>>
            THEN /\ tx' = anchored
                 /\ pc' = "done"
                 /\ result' = Panic("lib.rs:84")
            ELSE /\ tx' = PushFeeInput(anchored, fees_tx)
                 /\ pc' = "submit"
                 /\ UNCHANGED result
    /\ UNCHANGED <<data, bitcoin_block_height, params, fees_tx, new_data, inputs>>

\* variant: a rejected submission restores the buffers of entry
Submit_rollback ==
    /\ pc = "submit"
    /\ \E r \in {Ok} \cup {Err(e) : e \in SubmitErrors} :
         /\ calls' = Append(calls, Call("set_transaction_to_sign", account,
                                        [accounts |-> accounts,
                                         request |-> TransactionToSign(tx, account)], r))
         /\ result' = r
         /\ data' = IF r = Ok THEN data ELSE entry_data
    /\ pc' = "done"
    /\ UNCHANGED <<locals, inputs>>

\* lines 87-98
Submit ==
    /\ pc = "submit"
    /\ \E r \in {Ok} \cup {Err(e) : e \in SubmitErrors} :
         /\ calls' = Append(calls, Call("set_transaction_to_sign", account,
                                        [accounts |-> accounts,
                                         request |-> TransactionToSign(tx, account)], r))
         /\ result' = r
    /\ pc' = "done"
    /\ UNCHANGED <<data, locals, inputs>>

Next ==
    \/ Entry
    \/ CheckArity
    \/ GetHeight
    \/ DecodeParams
    \/ DecodeFee
    \/ Realloc
    \/ ScriptPubkey
    \/ Write
    \/ Assemble
    \/ Submit

Spec == Init /\ [][Next]_vars

\* ================================================================ claims
CallIdx(op) == {i \in 1..Len(calls) : calls[i].op = op}
HasCall(op) == CallIdx(op) # {}
Submitted == HasCall("set_transaction_to_sign")
NoMutatingCall ==
    /\ ~HasCall("realloc")
    /\ ~HasCall("copy_from_slice")
    /\ ~HasCall("add_state_transition")
    /\ ~Submitted
Started == pc \notin {"idle", "arity"}
\* the run has gone through the capacity check of lines 58-61
PastRealloc ==
    /\ Len(accounts) = 1
    /\ \/ pc \in {"script_pubkey", "write", "assemble", "submit"}
       \/ pc = "done" /\ (HasCall("realloc") \/ HasCall("get_account_script_pubkey"))
GreetingLen == Len(Hello) + Len(params.name)
EntryLen == Len(entry_data[account])
SingleInputFees == {serialize(t) : t \in {f \in FeeTxs : Len(f.input) = 1}}
ZeroInputFees == {serialize(t) : t \in {f \in FeeTxs : Len(f.input) = 0}}

\* C1: an invocation whose account list does not have exactly one entry
\* returns Custom(501) and calls no mutating or submitting collaborator;
\* every account buffer is as it was at entry.
C1_ArityRejected ==
    (Started /\ Len(accounts) # 1) =>
        /\ pc = "done"
        /\ result = Err(Custom501)
        /\ NoMutatingCall
        /\ data = entry_data

C1_Witness ==
    /\ pc = "done"
    /\ Len(accounts) = 2
    /\ result = Err(Custom501)
    /\ invocations = 2

\* C2 (as claimed): a run that fails before the signing request is
\* submitted leaves every buffer as at entry and submits nothing.
C2_NoSideEffectBeforeSubmit ==
    (pc = "done" /\ result # Ok /\ ~Submitted) => data = entry_data

\* C3 (as claimed): a fee transaction that does not decode, or decodes with
\* zero inputs, makes the invocation fail with the buffer as at entry and no
\* signing request submitted.
C3_MalformedFeeNoMutation ==
    (pc = "done" /\ Len(accounts) = 1
        /\ \E n \in Names, t \in FeeTxBytes :
              /\ instruction_data = borsh_to_vec([name |-> n, tx_hex |-> t])
              /\ t \notin {serialize(f) : f \in {g \in FeeTxs : g.input # <<>>}})
    => (result.kind \in {"Err", "Panic"} /\ data = entry_data /\ ~Submitted)

\* C4: a payload that is not the encoding of any HelloWorldParams ends the
\* invocation at the payload decode of line 49, with no resize, no buffer
\* write, no state-transition append and no submission.
C4_MalformedPayload ==
    (Len(accounts) = 1 /\ instruction_data \notin WellFormedPayloads
        /\ pc \notin {"idle", "arity", "height", "decode_params"})
    => /\ pc = "done"
       /\ result = Panic("lib.rs:49")
       /\ NoMutatingCall
       /\ data = entry_data

C4_Witness ==
    /\ pc = "done"
    /\ instruction_data = Append(borsh_to_vec([name |-> Bob, tx_hex |-> GoodFee]), 0)
    /\ Len(accounts) = 1
    /\ EntryLen = 9
    /\ result = Panic("lib.rs:49")

\* C5: when the host refuses the resize, the invocation returns the host's
\* error, the refused resize is its last call (no write, no append, no
\* submission) and every buffer is as at entry.
C5_ResizeFailed ==
    \A i \in CallIdx("realloc") :
        calls[i].ret # Ok =>
            /\ pc = "done"
            /\ result = calls[i].ret
            /\ i = Len(calls)
            /\ ~HasCall("copy_from_slice")
            /\ ~HasCall("add_state_transition")
            /\ ~Submitted
            /\ data = entry_data

C5_Witness ==
    /\ pc = "done"
    /\ result = Err("InvalidRealloc")
    /\ HasCall("realloc")

\* C6: when the buffer at entry is shorter than the greeting, exactly one
\* resize is requested, to len(greeting) bytes with zero-fill, before the
\* write; at the write the buffer has exactly len(greeting) bytes.
C6_ResizeBeforeWrite ==
    (PastRealloc /\ EntryLen < GreetingLen) =>
        /\ Cardinality(CallIdx("realloc")) = 1
        /\ \A i \in CallIdx("realloc") :
              /\ calls[i].arg = [new_len |-> GreetingLen, zero_init |-> TRUE]
              /\ \A j \in CallIdx("copy_from_slice") : i < j
        /\ (pc = "write" => Len(data[account]) = GreetingLen)
        /\ \A j \in CallIdx("copy_from_slice") : calls[j].ret = TRUE

C6_Witness ==
    /\ pc = "assemble"
    /\ EntryLen = 5
    /\ GreetingLen = 11
    /\ HasCall("realloc")
    /\ HasCall("copy_from_slice")

\* C7: when the buffer at entry is at least as long as the greeting, no
\* resize is requested; if it is strictly longer the invocation does not
\* succeed, the buffer stays as at entry and nothing is submitted.
C7_NoResizeExactWrite ==
    (PastRealloc /\ EntryLen >= GreetingLen) =>
        /\ ~HasCall("realloc")
        /\ (result = Ok => EntryLen = GreetingLen)
        /\ (EntryLen > GreetingLen =>
              /\ result # Ok
              /\ data = entry_data
              /\ ~Submitted
              /\ pc \in {"script_pubkey", "write", "done"})

C7_Witness ==
    /\ pc = "done"
    /\ PastRealloc
    /\ EntryLen = 11
    /\ GreetingLen = 9
    /\ result = Panic("lib.rs:72")

\* C8: whenever the invocation returns success, the buffer holds exactly
\* "Hello " followed by the name of the payload, len(name) + 6 bytes.
C8_SuccessWritesGreeting ==
    \A n \in Names, t \in FeeTxBytes :
        (pc = "done" /\ result = Ok
            /\ instruction_data = borsh_to_vec([name |-> n, tx_hex |-> t]))
        => /\ data[account] = Hello \o n
           /\ Len(data[account]) = Len(n) + 6
           /\ (n = Alice => data[account] = HelloAlice)

C8_Witness ==
    /\ pc = "done"
    /\ result = Ok
    /\ params.name = Alice
    /\ data[account] = HelloAlice
    /\ EntryLen = 11

\* the end-to-end scenario: one account with a 5-byte buffer, name "Bob", a
\* single-input fee transaction, and a host that grants the resize and
\* accepts the signing request
BobScenario ==
    /\ pc = "done"
    /\ Len(accounts) = 1
    /\ EntryLen = 5
    /\ \E t \in SingleInputFees : instruction_data = borsh_to_vec([name |-> Bob, tx_hex |-> t])
    /\ \A i \in CallIdx("realloc") \cup CallIdx("set_transaction_to_sign") : calls[i].ret = Ok

\* the submitted transaction holds the anchoring inputs and one fee input
OneFeeInputSubmitted ==
    /\ Cardinality(CallIdx("set_transaction_to_sign")) = 1
    /\ \A i \in CallIdx("set_transaction_to_sign"), j \in CallIdx("add_state_transition") :
          LET d == deserialize(calls[i].arg.request.tx_bytes) IN
          /\ d.ok
          /\ Len(d.tx.input) = calls[j].arg + 1
          /\ d.tx.input[Len(d.tx.input)] = fees_tx.input[1]

\* C9 (as claimed): in the scenario the invocation succeeds and the buffer
\* becomes "Hello Bob" with a length of 11 bytes.
C9_EndToEnd11 ==
    BobScenario =>
        /\ result = Ok
        /\ data[account] = HelloBob
        /\ Len(data[account]) = 11
        /\ OneFeeInputSubmitted

\* C9 (amended): in the scenario the invocation succeeds and the buffer,
\* resized from 5 bytes, becomes "Hello Bob", which is 9 bytes; the
\* submitted transaction holds the anchoring inputs and one fee input.
C9_EndToEnd9 ==
    BobScenario =>
        /\ result = Ok
        /\ data[account] = HelloBob
        /\ Len(data[account]) = 9
        /\ \E i \in CallIdx("realloc") : calls[i].arg.new_len = 9
        /\ OneFeeInputSubmitted

C9_Witness ==
    /\ BobScenario
    /\ result = Ok
    /\ Len(data[account]) = 9

\* C10: the transaction inside every submitted signing request decodes to
\* version 2, lock time 0, the inputs appended by add_state_transition
\* followed by input 0 of the fee transaction and nothing else, and the
\* outputs appended by add_state_transition only.
C10_OutputTransaction ==
    \A i \in CallIdx("set_transaction_to_sign") :
        LET d == deserialize(calls[i].arg.request.tx_bytes)
            fee == deserialize(params.tx_hex).tx
        IN /\ d.ok
           /\ d.tx.version = 2
           /\ d.tx.lock_time = 0
           /\ \E j \in CallIdx("add_state_transition") :
                 /\ j < i
                 /\ d.tx.input = AnchorInputs(calls[j].arg) \o <<fee.input[1]>>
                 /\ d.tx.output = AnchorOutputs(calls[j].arg)

C10_Witness ==
    /\ Submitted
    /\ fees_tx.input = <<7, 8>>
    /\ fees_tx.output = <<9>>
    /\ Len(tx.input) = 3

\* C11: every submitted signing request has exactly one inputs-to-sign
\* entry, input index 0 with the invoking account's key as signer; the
\* appended fee input, the last input of the transaction, is not named.
C11_SigningRequest ==
    \A i \in CallIdx("set_transaction_to_sign") :
        LET req == calls[i].arg.request
            d == deserialize(req.tx_bytes)
        IN /\ Len(req.inputs_to_sign) = 1
           /\ req.inputs_to_sign[1] = [index |-> 0, signer |-> accounts[1]]
           /\ d.ok
           /\ \A e \in 1..Len(req.inputs_to_sign) :
                 req.inputs_to_sign[e].index # Len(d.tx.input) - 1

C11_Witness ==
    /\ pc = "done"
    /\ Submitted
    /\ accounts = <<"k2">>
    /\ Len(tx.input) = 2
    /\ result = Ok

\* C12: when the host rejects the signing request, the invocation returns
\* the host's error as it is, the submission was attempted exactly once and
\* was the last call, and the buffer still holds the greeting.
C12_SubmitRejected ==
    \A i \in CallIdx("set_transaction_to_sign") :
        calls[i].ret # Ok =>
            /\ pc = "done"
            /\ result = calls[i].ret
            /\ Cardinality(CallIdx("set_transaction_to_sign")) = 1
            /\ i = Len(calls)
            /\ data[account] = Hello \o params.name

C12_Witness ==
    /\ pc = "done"
    /\ result = Err("Custom(1)")
    /\ Submitted
    /\ EntryLen = 5
    /\ data[account] = HelloBob

\* C13 (as claimed): every run ends in success or in one typed failure
\* value, never in an untyped abort.
C13_TypedOutcome ==
    pc = "done" => result.kind \in {"Ok", "Err"}

\* What an invocation ends in, written as a function of the account list,
\* the buffers at entry, the payload and the host's answers to realloc (rr),
\* add_state_transition (an inputs) and set_transaction_to_sign (sr).  The
\* chain height is not among its arguments.
OutcomeOf(accs, entry, payload, rr, an, sr) ==
    LET fail(r) == [result |-> r, data |-> entry, requests |-> {}] IN
    IF Len(accs) # 1 THEN fail(Err("Custom(501)"))
    ELSE IF payload \notin WellFormedPayloads THEN fail(Panic("lib.rs:49"))
    ELSE LET k == accs[1]
             p == CHOOSE q \in [name : Names, tx_hex : FeeTxBytes] : borsh_to_vec(q) = payload
             g == Hello \o p.name
             written_data == [entry EXCEPT ![k] = g]
         IN IF p.tx_hex \notin {serialize(f) : f \in FeeTxs} THEN fail(Panic("lib.rs:52"))
            ELSE LET fee == CHOOSE f \in FeeTxs : serialize(f) = p.tx_hex IN
                 IF Len(g) > Len(entry[k]) /\ rr # Ok THEN fail(rr)
                 ELSE IF Len(g) < Len(entry[k]) THEN fail(Panic("lib.rs:72"))
                 ELSE IF fee.input = <<>>
                      THEN [result |-> Panic("lib.rs:84"), data |-> written_data, requests |-> {}]
                 ELSE [result |-> sr,
                       data |-> written_data,
                       requests |->
                          {[tx_bytes |-> serialize([version |-> 2, lock_time |-> 0,
                                                    input |-> AnchorInputs(an) \o <<fee.input[1]>>,
                                                    output |-> AnchorOutputs(an)]),
                            inputs_to_sign |-> <<[index |-> 0, signer |-> k]>>]}]

\* the host's answers in the running invocation (a default where the call
\* was not made)
ReallocAnswer ==
    IF HasCall("realloc") THEN calls[CHOOSE i \in CallIdx("realloc") : TRUE].ret ELSE Ok
AnchorAnswer ==
    IF HasCall("add_state_transition")
    THEN calls[CHOOSE i \in CallIdx("add_state_transition") : TRUE].arg ELSE 1
SubmitAnswer ==
    IF Submitted THEN calls[CHOOSE i \in CallIdx("set_transaction_to_sign") : TRUE].ret ELSE Ok
SubmittedRequests == {calls[i].arg.request : i \in CallIdx("set_transaction_to_sign")}

\* C14: the outcome, the final buffers and the submitted signing request of
\* an invocation are determined by the account list, the buffers at entry,
\* the payload and the other host answers alone; hence two invocations that
\* differ only in the chain height end alike.
C14_HeightNotUsed ==
    pc = "done" =>
        LET o == OutcomeOf(accounts, entry_data, instruction_data,
                           ReallocAnswer, AnchorAnswer, SubmitAnswer)
        IN /\ result = o.result
           /\ data = o.data
           /\ SubmittedRequests = o.requests

C14_Witness ==
    /\ pc = "done"
    /\ bitcoin_block_height = 101
    /\ result = Ok
    /\ EntryLen = 5
    /\ data[account] = HelloBob
    /\ invocations = 1

\* C15: in every state in which a signing request has been submitted there
\* is exactly one submission, it comes after a successful write and after
\* the state-transition append made after that write, and the buffer holds
\* the greeting.
C15_SubmitAfterWrite ==
    Submitted =>
        /\ Cardinality(CallIdx("set_transaction_to_sign")) = 1
        /\ \A i \in CallIdx("set_transaction_to_sign") :
              \E w \in CallIdx("copy_from_slice"), a \in CallIdx("add_state_transition") :
                 /\ w < a
                 /\ a < i
                 /\ calls[w].ret = TRUE
                 /\ calls[w].arg = Hello \o params.name
                 /\ calls[a].key = accounts[1]
        /\ data[account] = Hello \o params.name

C15_Witness ==
    /\ Submitted
    /\ pc = "done"
    /\ EntryLen = 9
    /\ entry_data[account] = Stale(9)
    /\ data[account] = HelloBob

\* C16: no step of any invocation makes an account's buffer shorter.
C16_LengthNeverDecreases ==
    [][\A k \in Keys : Len(data'[k]) >= Len(data[k])]_vars

C16_Witness ==
    /\ invocations = 2
    /\ pc = "done"
    /\ Len(accounts) = 1
    /\ entry_data[account] = HelloBob
    /\ data[account] = HelloAlice
    /\ written[account] = <<9, 11>>

\* C17: once a greeting of length L has been written to an account, an
\* invocation on that account whose greeting is shorter than L does not
\* succeed, leaves the buffer as it found it and submits nothing; a
\* successful invocation has a greeting at least as long as every greeting
\* written before.
C17_ShorterGreetingRejected ==
    \A n \in Names, t \in FeeTxBytes :
        (Started /\ Len(accounts) = 1
            /\ instruction_data = borsh_to_vec([name |-> n, tx_hex |-> t]))
        => /\ (\E i \in 1..Len(written[account]) : Len(Hello) + Len(n) < written[account][i])
                 => /\ result # Ok
                    /\ data[account] = entry_data[account]
                    /\ ~Submitted
           /\ result = Ok
                 => \A i \in 1..Len(written[account]) : Len(Hello) + Len(n) >= written[account][i]

C17_Witness ==
    /\ invocations = 2
    /\ pc = "done"
    /\ Len(accounts) = 1
    /\ written[account] = <<11>>
    /\ params.name = Bob
    /\ entry_data[account] = HelloAlice
    /\ data[account] = HelloAlice
    /\ result = Panic("lib.rs:72")

====
